---- MODULE Spec2Model ----
(***************************************************************************)
(* A model of sigoEngine.go (SIGO - SI Gateway in GO).                     *)
(*                                                                         *)
(* Three specifications share one set of variables:                        *)
(*   Spec    one run of main(): session load, context building, the retry  *)
(*           loop through the circuit breaker and callAPI, the session     *)
(*           update and the exit status;                                   *)
(*   SpecCB  CircuitBreaker.Do called by several threads of a host, with   *)
(*           the clock advancing between and during the calls;             *)
(*   SpecFn  Session.addMessage and Session.buildPrompt applied to         *)
(*           histories and prompts drawn from bounded sets.                *)
(*                                                                         *)
(* Time is counted in whole seconds. Strings are TLA+ strings, errors are  *)
(* NilErr (Go's nil) or Err(message).                                      *)
(***************************************************************************)
EXTENDS Integers, Sequences, FiniteSets, TLC

VARIABLES
  \* ---- main(): flags and inputs (sigoEngine.go 367-398)
  sessionID,      \* *sessionID, "" = no session
  prompt,         \* prompt, the raw input text
  timeout,        \* *timeout, seconds
  retries,        \* *retries
  cfgType,        \* cfg.Type
  jsonOut,        \* *jsonOut
  \* ---- main(): locals
  pc,             \* position in main
  session,        \* session.History
  contextPrompt,  \* contextPrompt
  deadline,       \* the deadline of ctx
  i,              \* loop counter
  err,            \* err, the result of breaker.Do in the current iteration
  lastErr,        \* lastErr
  respResponse,   \* resp.Response
  respError,      \* resp.Error
  exitStatus,     \* the process exit status (-1 while running)
  stdout,         \* what was written to os.Stdout
  \* ---- the session store: the file .sessions/<model>-<sessionID>.json
  store,
  \* ---- the circuit breaker and the clock
  failures,       \* cb.failures
  lastFail,       \* cb.lastFail
  mu,             \* cb.mu: the holder of the lock, or Unlocked
  now,            \* time.Now(), seconds
  \* ---- observations of a run of main (history variables)
  store0,         \* the store when the invocation started
  loaded,         \* what loadSession returned
  calls,          \* invocations of the wrapped operation (callAPI)
  failedCalls,    \* those that returned an error
  netCalls,       \* outbound network calls (client.Do)
  okText,         \* the text a successful callAPI returned, as <<text>>
  adds,           \* invocations of addMessage
  saves,          \* invocations of save that wrote the file
  sleeps,         \* the backoff sleeps performed, in order
  lateStart,      \* an attempt or a sleep began at a time later than the deadline
  loopEnd,        \* the time the retry loop was left
  \* ---- SpecCB: the threads calling Do
  tpc,            \* thread -> "idle" | "waiting" | "inFn"
  tres,           \* thread -> <<>>, or <<e>> with e the result of its last Do
  tstart,         \* thread -> when its Do took the lock, while fn runs
  opLog,          \* the last wrapped operations: [ok, entered, ended]
  running,        \* wrapped operations executing now
  ticks,          \* clock steps taken
  \* ---- SpecFn: function applications
  fnOp,           \* the function applied last: "none", "addMessage",
                  \* "buildPrompt", "parseResponse"
  fnHist,         \* the receiver's History before that application
  fnArg,          \* its arguments: <<role, content>>, <<newPrompt>>, <<type, body>>
  fnAfter,        \* the receiver's History now
  fnOut,          \* the string buildPrompt or parseResponse returned
  fnErr,          \* what parseResponse returned as its error
  fnSteps,        \* applications so far
  \* ---- SpecRace: concurrent invocations of main on one session file
  rpc,            \* invocation -> position in main
  rprompt,        \* invocation -> prompt
  rsession,       \* invocation -> session.History
  rresp,          \* invocation -> resp.Response
  rerr,           \* invocation -> resp.Error
  rlog            \* the reads and writes of the file, in order

mainVars == <<sessionID, prompt, timeout, retries, cfgType, jsonOut, pc, session,
              contextPrompt, deadline, i, err, lastErr, respResponse,
              respError, exitStatus, stdout, store>>
cbVars   == <<failures, lastFail, mu, now>>
obsVars  == <<store0, loaded, calls, failedCalls, netCalls, okText, adds,
              saves, sleeps, lateStart, loopEnd>>
hostVars == <<tpc, tres, tstart, opLog, running, ticks>>
fnVars   == <<fnOp, fnHist, fnArg, fnAfter, fnOut, fnErr, fnSteps>>
flags    == <<sessionID, prompt, timeout, retries, cfgType, jsonOut>>
raceVars == <<rpc, rprompt, rsession, rresp, rerr, rlog>>
vars     == <<mainVars, cbVars, obsVars, hostVars, fnVars, raceVars>>

----------------------------------------------------------------------------
(* Errors *)

NilErr == <<>>
Err(msg) == <<msg>>
ErrorText(e) == e[1]

ErrCircuitOpen     == Err("circuit open")
ErrUnknownProvider == Err("unknown provider type: custom")
ErrParse           == Err("parse error: invalid character")
ErrFormat          == Err("unexpected response format")
ErrNetwork         == Err("connection refused")
ErrDeadline        == Err("context deadline exceeded")
ErrClientTimeout   == Err("context deadline exceeded (Client.Timeout exceeded while awaiting headers)")

----------------------------------------------------------------------------
(* Session *)

Message(role, content) == [Role |-> role, Content |-> content]

historyCap == 20

LastN(s, n) == IF Len(s) > n THEN SubSeq(s, Len(s) - n + 1, Len(s)) ELSE s

addMessageNoTruncate(h, role, content) == Append(h, Message(role, content))

addMessageDropNewest(h, role, content) ==
  LET a == Append(h, Message(role, content))
  IN  IF Len(a) > historyCap THEN SubSeq(a, 1, historyCap) ELSE a

\* s.History = append(s.History, ...); if len > 20 { s.History = s.History[len-20:] }
addMessage(h, role, content) ==
  LET a == Append(h, Message(role, content))
  IN  IF Len(a) > historyCap
        THEN SubSeq(a, Len(a) - historyCap + 1, Len(a))
        ELSE a

RECURSIVE writeTurns(_, _, _)
\* the loop of buildPrompt: ctx is the strings.Builder, k the range index
writeTurns(h, k, ctx) ==
  IF k > Len(h) THEN ctx
  ELSE LET msg == h[k]
           c1  == IF msg.Role = "user" THEN ctx \o "Human: "
                                        ELSE ctx \o "Assistant: "
           c2  == c1 \o msg.Content
           c3  == c2 \o "\n\n"
       IN  writeTurns(h, k + 1, c3)

buildPromptAlwaysFramed(h, newPrompt) ==
  (writeTurns(h, 1, "") \o "Human: ") \o newPrompt

buildPrompt(h, newPrompt) ==
  IF Len(h) = 0 THEN newPrompt
  ELSE (writeTurns(h, 1, "") \o "Human: ") \o newPrompt

\* The session file: absent, or the JSON document {"history":[...]}
NoFile == [exists |-> FALSE, history |-> <<>>]
jsonMarshal(h) == [exists |-> TRUE, history |-> h]
jsonUnmarshal(file) == file.history

\* sessionID == "" or an unreadable file give an empty Session
loadSession(sid, file) ==
  IF sid = "" THEN <<>>
  ELSE IF ~file.exists THEN <<>>
  ELSE jsonUnmarshal(file)

\* the file after s.save(sessionID, model); the write is taken to succeed
\* (save ignores the errors of MkdirAll and WriteFile)
save(h, sid, file) ==
  IF sid = "" THEN file ELSE jsonMarshal(h)

----------------------------------------------------------------------------
(* Circuit breaker *)

threshold == 3
cbTimeout == 300          \* 5 * time.Minute, in seconds

ZeroTime == -1            \* the zero time.Time of a fresh breaker's lastFail
maxDuration == 2147483647 \* time.Since saturates at the largest Duration

Unlocked == "unlocked"

canLockAlways(m) == TRUE

\* cb.mu.Lock() returns only while no one holds the lock
canLock(m) == m = Unlocked

\* time.Since(cb.lastFail)
sinceLastFail(lf, t) == IF lf = ZeroTime THEN maxDuration ELSE t - lf

failuresNoCooldown(f, lf, t) == f

\* if time.Since(cb.lastFail) > cb.timeout { cb.failures = 0 }
failuresAfterCooldown(f, lf, t) ==
  IF sinceLastFail(lf, t) > cbTimeout THEN 0 ELSE f

circuitOpenLate(f) == f > threshold

\* if cb.failures >= cb.threshold { return "circuit open" }
circuitOpen(f) == f >= threshold

failuresAfterFnNoReset(f, e) == IF e # NilErr THEN f + 1 ELSE f

\* err := fn(); if err != nil { cb.failures++ ... } else { cb.failures = 0 }
failuresAfterFn(f, e) == IF e # NilErr THEN f + 1 ELSE 0

\* ... cb.lastFail = time.Now()
lastFailAfterFn(lf, e, t) == IF e # NilErr THEN t ELSE lf

----------------------------------------------------------------------------
(* callAPI *)

clientTimeout == 30       \* http.Client{Timeout: 30 * time.Second}

Absent == <<>>
NotAnObject == <<"hello", "not an object">>

\* a failed x.(T) without the comma-ok form: a run-time panic
Panic == <<"panic", "interface conversion">>

\* A response body: unparseable, or a JSON object with the fields callAPI
\* looks at. error holds the "%v" rendering of error.message, content the
\* text of content[0], choices the content of choices[0].message. A content
\* or choices array whose first element is not a JSON object is NotAnObject.
Body(isJson, error, content, choices) ==
  [json |-> isJson, error |-> error, content |-> content, choices |-> choices]

bodyGarbage    == Body(FALSE, Absent, Absent, Absent)
bodyEmpty      == Body(TRUE, Absent, Absent, Absent)
bodyBadKey     == Body(TRUE, <<"bad key">>, Absent, Absent)
bodyBlankError == Body(TRUE, <<"">>, Absent, Absent)
bodyAnthropic  == Body(TRUE, Absent, <<"hello">>, Absent)
bodyOpenAI     == Body(TRUE, Absent, Absent, <<"hi">>)
bodyErrorAndText == Body(TRUE, <<"overloaded">>, <<"hello">>, <<"hi">>)
bodyTextList   == Body(TRUE, Absent, NotAnObject, NotAnObject)

Bodies == {bodyGarbage, bodyEmpty, bodyBadKey, bodyBlankError, bodyAnthropic,
           bodyOpenAI, bodyErrorAndText, bodyTextList}

Result(text, e) == [text |-> text, err |-> e]

knownTypeAny(type) == TRUE

\* switch cfg.Type: "anthropic", "openai" and "" build a request
knownType(type) == type \in {"anthropic", "openai", ""}

\* content[0].(map[string]interface{}) and choices[0].(map[string]interface{})
\* (273, 282) are asserted without the comma-ok form
elementText(field) ==
  IF field = NotAnObject THEN Result("", Panic)
  ELSE Result(field[1], NilErr)

\* json.Unmarshal and the extraction of the reply (262-290)
parseResponse(type, body) ==
  IF ~body.json THEN Result("", ErrParse)
  ELSE IF type = "anthropic"
    THEN IF body.error # Absent THEN Result("", Err(body.error[1]))
         ELSE IF body.content # Absent THEN elementText(body.content)
         ELSE Result("", ErrFormat)
    ELSE IF body.error # Absent THEN Result("", Err(body.error[1]))
         ELSE IF body.choices # Absent THEN elementText(body.choices)
         ELSE Result("", ErrFormat)

\* when an in-flight client.Do is cut off: the context's deadline or the
\* client's own Timeout, whichever comes first
callLimit(start, dl) ==
  IF dl < start + clientTimeout THEN dl ELSE start + clientTimeout

callAbortErr(start, dl) ==
  IF dl <= start + clientTimeout THEN ErrDeadline ELSE ErrClientTimeout

----------------------------------------------------------------------------
(* Bounds and input sets *)

MaxRetries == 5           \* -r is drawn from -1 .. MaxRetries
MaxTicks == 3             \* clock steps of the host in SpecCB
MaxFnSteps == 3           \* function applications in SpecFn

Prompts == {"how are you", "hi"}
SessionIDs == {"", "projekt"}
Timeouts == {0, 2, clientTimeout + 15}
RetryCounts == -1 .. MaxRetries
ProviderTypes == {"anthropic", "openai", "", "custom"}
\* how long the provider takes to answer one request
CallDurations == {0, 1, clientTimeout + 1}

RECURSIVE Conversation(_)
\* the history after n exchanges were recorded by earlier invocations
Conversation(n) ==
  IF n = 0 THEN <<>>
  ELSE Conversation(n - 1) \o << Message("user", "q" \o ToString(n)),
                                 Message("assistant", "a" \o ToString(n)) >>

\* Session files this program wrote: none yet, or the last historyCap entries
\* of the exchanges recorded so far (loadSession itself does not truncate, so
\* a longer, hand-written file would be loaded as it is)
StoredFiles ==
  {NoFile} \cup { jsonMarshal(LastN(Conversation(n), historyCap)) :
                    n \in {1, historyCap \div 2 - 1, historyCap \div 2,
                           historyCap \div 2 + 1} }

----------------------------------------------------------------------------
(* Values of the variables a specification does not use *)

MainUnused ==
  /\ sessionID = "" /\ prompt = "" /\ timeout = 0 /\ retries = 0
  /\ cfgType = "" /\ jsonOut = FALSE /\ pc = "unused" /\ session = <<>> /\ contextPrompt = ""
  /\ deadline = 0 /\ i = 0 /\ err = NilErr /\ lastErr = NilErr
  /\ respResponse = "" /\ respError = "" /\ exitStatus = -1 /\ stdout = <<>>

ObsInit ==
  /\ store0 = store /\ loaded = <<>> /\ calls = 0 /\ failedCalls = 0
  /\ netCalls = 0 /\ okText = <<>> /\ adds = 0 /\ saves = 0 /\ sleeps = <<>>
  /\ lateStart = FALSE /\ loopEnd = -1

HostUnused ==
  /\ tpc = <<>> /\ tres = <<>> /\ tstart = <<>> /\ opLog = <<>>
  /\ running = 0 /\ ticks = 0

FnUnused ==
  /\ fnOp = "none" /\ fnHist = <<>> /\ fnArg = <<>> /\ fnAfter = <<>>
  /\ fnOut = "" /\ fnErr = NilErr /\ fnSteps = 0

RaceUnused ==
  /\ rpc = <<>> /\ rprompt = <<>> /\ rsession = <<>> /\ rresp = <<>>
  /\ rerr = <<>> /\ rlog = <<>>

\* NewCircuitBreaker(): failures 0, lastFail the zero time, the lock free
NewCircuitBreaker ==
  /\ failures = 0 /\ lastFail = ZeroTime /\ mu = Unlocked

----------------------------------------------------------------------------
(* main *)

\* the state once the flags are parsed, the config is loaded and the input
\* is read (365-398)
Init ==
  /\ sessionID \in SessionIDs
  /\ prompt \in Prompts
  /\ timeout \in Timeouts
  /\ retries \in RetryCounts
  /\ cfgType \in ProviderTypes
  /\ jsonOut \in BOOLEAN
  /\ store \in StoredFiles
  /\ pc = "start"
  /\ session = <<>> /\ contextPrompt = "" /\ deadline = 0 /\ i = 0
  /\ err = NilErr /\ lastErr = NilErr
  /\ respResponse = "" /\ respError = "" /\ exitStatus = -1 /\ stdout = <<>>
  /\ NewCircuitBreaker /\ now = 0
  /\ ObsInit /\ HostUnused /\ FnUnused /\ RaceUnused

\* 400-418: load the session, build the context, create the breaker and
\* the context with its deadline
Prepare ==
  /\ pc = "start"
  /\ session' = loadSession(sessionID, store)
  /\ contextPrompt' = buildPrompt(session', prompt)
  /\ deadline' = now + timeout
  /\ i' = 0
  /\ lastErr' = NilErr
  /\ loaded' = session'
  /\ pc' = "loop"
  /\ UNCHANGED <<flags, err,
                 respResponse, respError, exitStatus, stdout, store>>
  /\ UNCHANGED <<cbVars, hostVars, fnVars, raceVars>>
  /\ UNCHANGED <<store0, calls, failedCalls, netCalls, okText, adds, saves,
                 sleeps, lateStart, loopEnd>>

\* 421-422 and Do 90-100: the loop test, the lock, the cooldown check and
\* the open check
DoEnter ==
  /\ pc = "loop"
  /\ i < retries
  /\ canLock(mu)
  /\ failures' = failuresAfterCooldown(failures, lastFail, now)
  /\ lateStart' = (lateStart \/ now > deadline)
  /\ IF circuitOpen(failures')
       THEN /\ err' = ErrCircuitOpen
            /\ mu' = Unlocked
            /\ pc' = "returned"
       ELSE /\ err' = err
            /\ mu' = "main"
            /\ pc' = "inFn"
  /\ UNCHANGED <<flags, session,
                 contextPrompt, deadline, i, lastErr, respResponse, respError,
                 exitStatus, stdout, store>>
  /\ UNCHANGED <<lastFail, now>>
  /\ UNCHANGED <<hostVars, fnVars, raceVars>>
  /\ UNCHANGED <<store0, loaded, calls, failedCalls, netCalls, okText, adds,
                 saves, sleeps, loopEnd>>

\* Do 102-110 around the closure 422-429: callAPI returned r at time t
\* after n outbound calls
FnReturn(r, t, n) ==
  /\ failures' = failuresAfterFn(failures, r.err)
  /\ lastFail' = lastFailAfterFn(lastFail, r.err, t)
  /\ mu' = Unlocked
  /\ now' = t
  /\ err' = r.err
  /\ respResponse' = IF r.err = NilErr THEN r.text ELSE respResponse
  /\ calls' = calls + 1
  /\ failedCalls' = IF r.err = NilErr THEN failedCalls ELSE failedCalls + 1
  /\ netCalls' = netCalls + n
  /\ okText' = IF r.err = NilErr THEN <<r.text>> ELSE okText
  /\ pc' = "returned"
  /\ UNCHANGED <<flags, session,
                 contextPrompt, deadline, i, lastErr, respError, exitStatus,
                 stdout, store>>
  /\ UNCHANGED <<hostVars, fnVars, raceVars>>
  /\ UNCHANGED <<store0, loaded, adds, saves, sleeps, lateStart, loopEnd>>

\* callAPI 210-231: a provider type with no request shape
CallUnknownType ==
  /\ pc = "inFn"
  /\ ~knownType(cfgType)
  /\ FnReturn(Result("", ErrUnknownProvider), now, 0)

\* callAPI 254-257: client.Do with a context that has already expired
CallExpired ==
  /\ pc = "inFn"
  /\ knownType(cfgType)
  /\ now >= deadline
  /\ FnReturn(Result("", ErrDeadline), now, 1)

\* callAPI 254-257: the request is cut off by the deadline or by the
\* client's Timeout before the provider answered
CallAborted ==
  /\ pc = "inFn"
  /\ knownType(cfgType)
  /\ now < deadline
  /\ \E d \in CallDurations :
       /\ now + d >= callLimit(now, deadline)
       /\ FnReturn(Result("", callAbortErr(now, deadline)),
                   callLimit(now, deadline), 1)

\* callAPI 254-257: the transport fails
CallNetworkError ==
  /\ pc = "inFn"
  /\ knownType(cfgType)
  /\ now < deadline
  /\ \E d \in CallDurations :
       /\ now + d < callLimit(now, deadline)
       /\ FnReturn(Result("", ErrNetwork), now + d, 1)

\* callAPI 258-290: a body arrived and is parsed
CallAnswered ==
  /\ pc = "inFn"
  /\ knownType(cfgType)
  /\ now < deadline
  /\ \E d \in CallDurations, body \in Bodies :
       /\ now + d < callLimit(now, deadline)
       /\ parseResponse(cfgType, body).err # Panic
       /\ FnReturn(parseResponse(cfgType, body), now + d, 1)

\* callAPI 272-283: the extraction panics; the deferred Unlock runs and the
\* process dies with status 2, nothing more of main is executed
CallPanicked ==
  /\ pc = "inFn"
  /\ knownType(cfgType)
  /\ now < deadline
  /\ \E d \in CallDurations, body \in Bodies :
       /\ now + d < callLimit(now, deadline)
       /\ parseResponse(cfgType, body).err = Panic
       /\ now' = now + d
  /\ mu' = Unlocked
  /\ calls' = calls + 1
  /\ netCalls' = netCalls + 1
  /\ exitStatus' = 2
  /\ pc' = "crashed"
  /\ UNCHANGED <<flags, session, contextPrompt, deadline, i, err, lastErr,
                 respResponse, respError, stdout, store>>
  /\ UNCHANGED <<failures, lastFail>>
  /\ UNCHANGED <<hostVars, fnVars, raceVars>>
  /\ UNCHANGED <<store0, loaded, failedCalls, okText, adds, saves, sleeps,
                 lateStart, loopEnd>>

BreakKeepsLooping ==
  /\ pc = "returned"
  /\ err = NilErr
  /\ i' = i + 1
  /\ pc' = "loop"
  /\ UNCHANGED <<flags, session, contextPrompt, deadline, err, lastErr,
                 respResponse, respError, exitStatus, stdout, store>>
  /\ UNCHANGED <<cbVars, hostVars, fnVars, raceVars, obsVars>>

\* 431-433: the attempt succeeded
Break ==
  /\ pc = "returned"
  /\ err = NilErr
  /\ loopEnd' = now
  /\ pc' = "afterLoop"
  /\ UNCHANGED <<flags, session, contextPrompt, deadline, i, err, lastErr,
                 respResponse, respError, exitStatus, stdout, store>>
  /\ UNCHANGED <<cbVars, hostVars, fnVars, raceVars>>
  /\ UNCHANGED <<store0, loaded, calls, failedCalls, netCalls, okText, adds,
                 saves, sleeps, lateStart>>

lastErrKeepFirst(le, e) == IF le = NilErr THEN e ELSE le

\* lastErr = err
lastErrAfterFailure(le, e) == e

\* 434-436: the attempt failed; remember the error, sleep unless it was
\* the last attempt
Failed ==
  /\ pc = "returned"
  /\ err # NilErr
  /\ lastErr' = lastErrAfterFailure(lastErr, err)
  /\ IF i < retries - 1
       THEN /\ pc' = "sleep"
            /\ i' = i
       ELSE /\ pc' = "loop"
            /\ i' = i + 1
  /\ UNCHANGED <<flags, session, contextPrompt, deadline, err, respResponse,
                 respError, exitStatus, stdout, store>>
  /\ UNCHANGED <<cbVars, hostVars, fnVars, raceVars, obsVars>>

backoffFixed(k) == 1

\* time.Duration(i+1) * time.Second
backoff(k) == k + 1

\* 437: time.Sleep, which no context interrupts; then i++
Sleep ==
  /\ pc = "sleep"
  /\ now' = now + backoff(i)
  /\ sleeps' = Append(sleeps, backoff(i))
  /\ lateStart' = (lateStart \/ now > deadline)
  /\ i' = i + 1
  /\ pc' = "loop"
  /\ UNCHANGED <<flags, session, contextPrompt, deadline, err, lastErr,
                 respResponse, respError, exitStatus, stdout, store>>
  /\ UNCHANGED <<failures, lastFail, mu>>
  /\ UNCHANGED <<hostVars, fnVars, raceVars>>
  /\ UNCHANGED <<store0, loaded, calls, failedCalls, netCalls, okText, adds,
                 saves, loopEnd>>

\* 421: i < *retries is false
LoopExit ==
  /\ pc = "loop"
  /\ ~(i < retries)
  /\ loopEnd' = now
  /\ pc' = "afterLoop"
  /\ UNCHANGED <<flags, session, contextPrompt, deadline, i, err, lastErr,
                 respResponse, respError, exitStatus, stdout, store>>
  /\ UNCHANGED <<cbVars, hostVars, fnVars, raceVars>>
  /\ UNCHANGED <<store0, loaded, calls, failedCalls, netCalls, okText, adds,
                 saves, sleeps, lateStart>>

\* if lastErr != nil { resp.Error = lastErr.Error() }
errorTextOf(le) == IF le # NilErr THEN ErrorText(le) ELSE ""

\* 441-445
RecordError ==
  /\ pc = "afterLoop"
  /\ respError' = errorTextOf(lastErr)
  /\ pc' = "saveSession"
  /\ UNCHANGED <<flags, session, contextPrompt, deadline, i, err, lastErr,
                 respResponse, exitStatus, stdout, store>>
  /\ UNCHANGED <<cbVars, hostVars, fnVars, raceVars, obsVars>>

shouldSaveAnyOutcome(re, sid) == sid # ""

\* if resp.Error == "" && *sessionID != ""
shouldSave(re, sid) == re = "" /\ sid # ""

\* session.addMessage("user", prompt)
userTurn(p, ctx) == p

\* 448: nothing to save
SkipSave ==
  /\ pc = "saveSession"
  /\ ~shouldSave(respError, sessionID)
  /\ pc' = "output"
  /\ UNCHANGED <<flags, session, contextPrompt, deadline, i, err, lastErr,
                 respResponse, respError, exitStatus, stdout, store>>
  /\ UNCHANGED <<cbVars, hostVars, fnVars, raceVars, obsVars>>

\* 448-449
AddUser ==
  /\ pc = "saveSession"
  /\ shouldSave(respError, sessionID)
  /\ session' = addMessage(session, "user", userTurn(prompt, contextPrompt))
  /\ adds' = adds + 1
  /\ pc' = "addedUser"
  /\ UNCHANGED <<flags, contextPrompt, deadline, i, err, lastErr,
                 respResponse, respError, exitStatus, stdout, store>>
  /\ UNCHANGED <<cbVars, hostVars, fnVars, raceVars>>
  /\ UNCHANGED <<store0, loaded, calls, failedCalls, netCalls, okText, saves,
                 sleeps, lateStart, loopEnd>>

\* 450
AddAssistant ==
  /\ pc = "addedUser"
  /\ session' = addMessage(session, "assistant", respResponse)
  /\ adds' = adds + 1
  /\ pc' = "addedAssistant"
  /\ UNCHANGED <<flags, contextPrompt, deadline, i, err, lastErr,
                 respResponse, respError, exitStatus, stdout, store>>
  /\ UNCHANGED <<cbVars, hostVars, fnVars, raceVars>>
  /\ UNCHANGED <<store0, loaded, calls, failedCalls, netCalls, okText, saves,
                 sleeps, lateStart, loopEnd>>

\* 451
Save ==
  /\ pc = "addedAssistant"
  /\ store' = save(session, sessionID, store)
  /\ saves' = saves + 1
  /\ pc' = "output"
  /\ UNCHANGED <<flags, session, contextPrompt, deadline, i, err, lastErr,
                 respResponse, respError, exitStatus, stdout>>
  /\ UNCHANGED <<cbVars, hostVars, fnVars, raceVars>>
  /\ UNCHANGED <<store0, loaded, calls, failedCalls, netCalls, okText, adds,
                 sleeps, lateStart, loopEnd>>

OutputJSONExitsZero ==
  /\ pc = "output"
  /\ jsonOut
  /\ stdout' = <<"json", respResponse, respError>>
  /\ exitStatus' = 0
  /\ pc' = "done"
  /\ UNCHANGED <<flags, session, contextPrompt, deadline, i, err, lastErr,
                 respResponse, respError, store>>
  /\ UNCHANGED <<cbVars, hostVars, fnVars, raceVars, obsVars>>

\* 455-456 and 467-469: the record as JSON, then the status
OutputJSON ==
  /\ pc = "output"
  /\ jsonOut
  /\ stdout' = <<"json", respResponse, respError>>
  /\ exitStatus' = IF respError # "" THEN 1 ELSE 0
  /\ pc' = "done"
  /\ UNCHANGED <<flags, session, contextPrompt, deadline, i, err, lastErr,
                 respResponse, respError, store>>
  /\ UNCHANGED <<cbVars, hostVars, fnVars, raceVars, obsVars>>

\* 457-465: the error on stderr and status 1, or the response text
OutputPlain ==
  /\ pc = "output"
  /\ ~jsonOut
  /\ IF respError # ""
       THEN /\ stdout' = stdout
            /\ exitStatus' = 1
       ELSE /\ stdout' = <<"text", respResponse>>
            /\ exitStatus' = 0
  /\ pc' = "done"
  /\ UNCHANGED <<flags, session, contextPrompt, deadline, i, err, lastErr,
                 respResponse, respError, store>>
  /\ UNCHANGED <<cbVars, hostVars, fnVars, raceVars, obsVars>>

Next ==
  \/ Prepare
  \/ DoEnter
  \/ CallUnknownType
  \/ CallExpired
  \/ CallAborted
  \/ CallNetworkError
  \/ CallAnswered
  \/ CallPanicked
  \/ Break
  \/ Failed
  \/ Sleep
  \/ LoopExit
  \/ RecordError
  \/ SkipSave
  \/ AddUser
  \/ AddAssistant
  \/ Save
  \/ OutputJSON
  \/ OutputPlain

Spec == Init /\ [][Next]_vars

----------------------------------------------------------------------------
(* CircuitBreaker.Do called by the threads of a host *)

Threads == {"t1", "t2"}
\* the clock moves by a second or by a whole cooldown
TickSteps == {1, cbTimeout}
\* what the wrapped operations return
FnErrors == {NilErr, ErrNetwork}

InitCB ==
  /\ MainUnused /\ store = NoFile
  /\ NewCircuitBreaker /\ now = 0
  /\ ObsInit /\ FnUnused /\ RaceUnused
  /\ tpc = [t \in Threads |-> "idle"]
  /\ tres = [t \in Threads |-> <<>>]
  /\ tstart = [t \in Threads |-> 0]
  /\ opLog = <<>>
  /\ running = 0
  /\ ticks = 0

\* a thread calls Do and blocks in cb.mu.Lock() (91)
CbCall(t) ==
  /\ tpc[t] = "idle"
  /\ tpc' = [tpc EXCEPT ![t] = "waiting"]
  /\ UNCHANGED <<tres, tstart, opLog, running, ticks>>
  /\ UNCHANGED <<mainVars, cbVars, obsVars, fnVars, raceVars>>

\* 91-100: the lock is taken; cooldown check, open check; an open circuit
\* returns "circuit open" and releases the lock, otherwise fn is invoked
CbEnter(t) ==
  /\ tpc[t] = "waiting"
  /\ canLock(mu)
  /\ failures' = failuresAfterCooldown(failures, lastFail, now)
  /\ IF circuitOpen(failures')
       THEN /\ tres' = [tres EXCEPT ![t] = <<ErrCircuitOpen>>]
            /\ tstart' = tstart
            /\ tpc' = [tpc EXCEPT ![t] = "idle"]
            /\ mu' = Unlocked
            /\ running' = running
       ELSE /\ tres' = tres
            /\ tstart' = [tstart EXCEPT ![t] = now]
            /\ tpc' = [tpc EXCEPT ![t] = "inFn"]
            /\ mu' = t
            /\ running' = running + 1
  /\ UNCHANGED <<lastFail, now, opLog, ticks>>
  /\ UNCHANGED <<mainVars, obsVars, fnVars, raceVars>>

\* 102-110: fn returns e; the counters are updated, the lock is released
CbReturn(t, e) ==
  /\ tpc[t] = "inFn"
  /\ failures' = failuresAfterFn(failures, e)
  /\ lastFail' = lastFailAfterFn(lastFail, e, now)
  /\ mu' = Unlocked
  /\ tres' = [tres EXCEPT ![t] = <<e>>]
  /\ tpc' = [tpc EXCEPT ![t] = "idle"]
  /\ opLog' = LastN(Append(opLog, [ok |-> e = NilErr,
                                   entered |-> tstart[t],
                                   ended |-> now]), threshold)
  /\ running' = running - 1
  /\ tstart' = [tstart EXCEPT ![t] = 0]
  /\ UNCHANGED <<now, ticks>>
  /\ UNCHANGED <<mainVars, obsVars, fnVars, raceVars>>

\* time passes
Tick(d) ==
  /\ ticks < MaxTicks
  /\ ticks' = ticks + 1
  /\ now' = now + d
  /\ UNCHANGED <<failures, lastFail, mu>>
  /\ UNCHANGED <<tpc, tres, tstart, opLog, running>>
  /\ UNCHANGED <<mainVars, obsVars, fnVars, raceVars>>

NextCB ==
  \/ \E t \in Threads : CbCall(t)
  \/ \E t \in Threads : CbEnter(t)
  \/ \E t \in Threads, e \in FnErrors : CbReturn(t, e)
  \/ \E d \in TickSteps : Tick(d)

SpecCB == InitCB /\ [][NextCB]_vars

----------------------------------------------------------------------------
(* Session.addMessage and Session.buildPrompt on their own *)

Roles == {"user", "assistant"}
Contents == {"hi", "hello"}

\* every history of length n over Roles and Contents
RECURSIVE HistoriesOfLen(_)
HistoriesOfLen(n) ==
  IF n = 0 THEN {<<>>}
  ELSE { Append(h, Message(r, c)) :
           h \in HistoriesOfLen(n - 1), r \in Roles, c \in Contents }

\* short histories of every shape, and long ones with distinct entries,
\* up to and beyond the cap
FnHistories ==
  HistoriesOfLen(0) \cup HistoriesOfLen(1) \cup HistoriesOfLen(2)
  \cup { SubSeq(Conversation(historyCap), 1, n) :
           n \in historyCap - 2 .. historyCap + 2 }

InitFn ==
  /\ MainUnused /\ store = NoFile
  /\ NewCircuitBreaker /\ now = 0
  /\ ObsInit /\ HostUnused /\ RaceUnused
  /\ fnAfter \in FnHistories
  /\ fnHist = fnAfter
  /\ fnOp = "none" /\ fnArg = <<>> /\ fnOut = "" /\ fnErr = NilErr
  /\ fnSteps = 0

\* s.addMessage(role, content)
FnAddMessage(role, content) ==
  /\ fnSteps < MaxFnSteps
  /\ fnSteps' = fnSteps + 1
  /\ fnOp' = "addMessage"
  /\ fnHist' = fnAfter
  /\ fnArg' = <<role, content>>
  /\ fnAfter' = addMessage(fnAfter, role, content)
  /\ fnOut' = ""
  /\ fnErr' = NilErr
  /\ UNCHANGED <<mainVars, cbVars, obsVars, hostVars, raceVars>>

\* s.buildPrompt(newPrompt): returns a string, assigns nothing
FnBuildPrompt(newPrompt) ==
  /\ fnSteps < MaxFnSteps
  /\ fnSteps' = fnSteps + 1
  /\ fnOp' = "buildPrompt"
  /\ fnHist' = fnAfter
  /\ fnArg' = <<newPrompt>>
  /\ fnAfter' = fnAfter
  /\ fnOut' = buildPrompt(fnAfter, newPrompt)
  /\ fnErr' = NilErr
  /\ UNCHANGED <<mainVars, cbVars, obsVars, hostVars, raceVars>>

\* callAPI 262-290 applied to a body received under cfg.Type = type
FnParseResponse(type, body) ==
  /\ fnSteps < MaxFnSteps
  /\ fnSteps' = fnSteps + 1
  /\ fnOp' = "parseResponse"
  /\ fnHist' = fnAfter
  /\ fnArg' = <<type, body>>
  /\ fnAfter' = fnAfter
  /\ fnOut' = parseResponse(type, body).text
  /\ fnErr' = parseResponse(type, body).err
  /\ UNCHANGED <<mainVars, cbVars, obsVars, hostVars, raceVars>>

NextFn ==
  \/ \E role \in Roles, content \in Contents : FnAddMessage(role, content)
  \/ \E newPrompt \in Prompts : FnBuildPrompt(newPrompt)
  \/ \E type \in ProviderTypes \ {"custom"}, body \in Bodies :
       FnParseResponse(type, body)

SpecFn == InitFn /\ [][NextFn]_vars

----------------------------------------------------------------------------
(* Claims about main, checked under Spec *)

\* the history the session file holds
stored(file) == jsonUnmarshal(file)

\* the invocation is over
Finished == pc = "done"

\* some attempt's callAPI returned a response text
CallSucceeded == okText # <<>>

\* C1: when callAPI fails on its first N invocations (N < 3) and succeeds on
\* invocation N+1, the invocation ends in success - the Response carries the
\* successful text and an empty error text - after exactly N+1 invocations
\* of callAPI.
C1_RetryEndsInSuccess ==
  (Finished /\ CallSucceeded /\ failedCalls < threshold)
    => /\ respError = ""
       /\ respResponse = okText[1]
       /\ calls = failedCalls + 1

\* C4: an invocation that ends with a non-empty error text leaves the
\* session alone: the stored session equals the one stored before, the
\* session in memory is the one loaded, and addMessage and save never ran.
C4_FailureLeavesSession ==
  (pc \in {"output", "done"} /\ respError # "")
    => /\ store = store0
       /\ session = loaded
       /\ adds = 0
       /\ saves = 0

C4_Witness ==
  /\ Finished /\ respError # "" /\ sessionID # "" /\ store0.exists
  /\ failedCalls >= 1 /\ CallSucceeded

\* C5: the deadline set at the start (here for a timeout of at least one
\* second) governs the whole retry loop: no attempt and no backoff sleep
\* begins after it has passed, and the loop is left no later than the
\* deadline.
C5_DeadlineBoundsLoop ==
  timeout > 0 =>
    /\ ~lateStart
    /\ loopEnd <= deadline

\* C6: with at least one attempt and every attempt failing, the error text
\* surfaced is exactly the message of the last attempt's failure.
C6_LastFailureSurfaced ==
  (Finished /\ retries >= 1 /\ ~CallSucceeded)
    => /\ err # NilErr
       /\ respError = ErrorText(err)

C6_Witness ==
  /\ Finished /\ ~CallSucceeded /\ failedCalls >= 1
  /\ err = ErrCircuitOpen /\ respError = "circuit open"

C8_SessionUpdatedOnSuccess ==
  (Finished /\ CallSucceeded /\ sessionID # "")
    => stored(store) =
         LastN(loaded \o << Message("user", prompt),
                            Message("assistant", okText[1]) >>, historyCap)

----------------------------------------------------------------------------
(* Claims about CircuitBreaker.Do, checked under SpecCB *)

\* thread t's Do passes its checks in this step: it had called Do and now
\* either runs fn or has returned
Decides(t) == tpc[t] = "waiting" /\ tpc'[t] # "waiting"

\* ... and is rejected: "circuit open", and no wrapped operation started
Rejected(t) ==
  /\ tpc'[t] = "idle"
  /\ tres'[t] = <<ErrCircuitOpen>>
  /\ running' = running
  /\ opLog' = opLog

\* ... and is let through to fn
Admitted(t) == tpc'[t] = "inFn" /\ running' = running + 1

\* the last three wrapped operations failed, each Do after the first was
\* entered within the cooldown of the failure before it, and so is a Do
\* entered at time t
ThreeFailuresBefore(t) ==
  /\ Len(opLog) = threshold
  /\ \A k \in 1 .. threshold : ~opLog[k].ok
  /\ \A k \in 1 .. threshold - 1 :
       opLog[k + 1].entered - opLog[k].ended <= cbTimeout
  /\ t - opLog[threshold].ended <= cbTimeout

\* C2: after three consecutive Do's whose operation failed, all within the
\* cooldown, the next Do returns "circuit open" without invoking its
\* operation; and whenever failures >= threshold after the cooldown check,
\* Do rejects without invoking the operation.
C2_OpenCircuitRejects ==
  [][ \A t \in Threads :
        Decides(t) =>
          /\ ThreeFailuresBefore(now) => Rejected(t)
          /\ failures' >= threshold => Rejected(t) ]_vars

C2_Witness ==
  \E t \in Threads :
    /\ tres[t] = <<ErrCircuitOpen>>
    /\ tpc[t] = "idle"
    /\ ThreeFailuresBefore(now)
    /\ now - opLog[threshold].ended = cbTimeout

\* C3: a Do made more than the cooldown after the last recorded failure
\* resets the failure counter before the open check and invokes its
\* operation, however many failures were recorded.
C3_CooldownReadmits ==
  [][ \A t \in Threads :
        (Decides(t) /\ lastFail # ZeroTime /\ now - lastFail > cbTimeout)
          => /\ Admitted(t)
             /\ failures' = 0 ]_vars

\* fn runs although the breaker had been open: three failures in a row,
\* the last one more than a cooldown before this Do
C3_Witness ==
  \E t \in Threads :
    /\ tpc[t] = "inFn"
    /\ failures = 0
    /\ Len(opLog) = threshold
    /\ \A k \in 1 .. threshold : ~opLog[k].ok
    /\ \A k \in 1 .. threshold - 1 :
         opLog[k + 1].entered - opLog[k].ended <= cbTimeout
    /\ tstart[t] - opLog[threshold].ended > cbTimeout
    /\ lastFail = opLog[threshold].ended

----------------------------------------------------------------------------
(* Claims about addMessage and buildPrompt, checked under SpecFn *)

Min(a, b) == IF a < b THEN a ELSE b

\* C9: addMessage yields the last 20 entries of h ++ [t]: it keeps at most
\* 20, they are the newest, in their order; from exactly 20 entries it
\* yields exactly 20, having dropped the oldest one.
C9_AddMessageKeepsNewest ==
  fnOp = "addMessage" =>
    LET a == fnHist \o << Message(fnArg[1], fnArg[2]) >>
        n == Len(fnAfter)
    IN  /\ n = Min(Len(a), historyCap)
        /\ \A k \in 1 .. n : fnAfter[k] = a[Len(a) - n + k]
        /\ Len(fnHist) = historyCap =>
             /\ n = historyCap
             /\ \A k \in 1 .. historyCap - 1 : fnAfter[k] = fnHist[k + 1]
             /\ fnAfter[historyCap] = Message(fnArg[1], fnArg[2])

C9_Witness ==
  /\ fnOp = "addMessage"
  /\ Len(fnHist) = historyCap
  /\ Len(fnAfter) = historyCap
  /\ fnAfter[1] = fnHist[2]
  /\ fnAfter[1] # fnHist[1]

\* one turn as the text of the context shows it
Rendered(msg) ==
  IF msg.Role = "user" THEN "Human: " \o msg.Content \o "\n\n"
  ELSE "Assistant: " \o msg.Content \o "\n\n"

RECURSIVE RenderedTurns(_)
RenderedTurns(h) ==
  IF h = <<>> THEN "" ELSE Rendered(Head(h)) \o RenderedTurns(Tail(h))

\* C10: buildPrompt returns the new prompt as it is for an empty history,
\* otherwise each turn in order as "Human: "/"Assistant: " + content +
\* "\n\n" followed by "Human: " + the new prompt and nothing more; it
\* leaves the session as it was.
C10_BuildPromptFormat ==
  fnOp = "buildPrompt" =>
    /\ fnHist = <<>> => fnOut = fnArg[1]
    /\ fnHist # <<>> =>
         fnOut = RenderedTurns(fnHist) \o ("Human: " \o fnArg[1])
    /\ (fnHist = << Message("user", "hi") >> /\ fnArg[1] = "how are you")
         => fnOut = "Human: hi\n\nHuman: how are you"
    /\ fnAfter = fnHist

C10_Witness ==
  /\ fnOp = "buildPrompt"
  /\ fnHist = << Message("user", "hi"), Message("assistant", "hello") >>
  /\ fnArg = <<"how are you">>
  /\ fnOut = "Human: hi\n\nAssistant: hello\n\nHuman: how are you"

----------------------------------------------------------------------------
(* Claims about callAPI *)

\* C11: with a provider type other than "anthropic", "openai" and "", every
\* attempt fails before any network call: no outbound call is made during
\* the whole invocation.
C11_UnknownTypeNoNetwork ==
  cfgType \notin {"anthropic", "openai", ""}
    => (netCalls = 0 /\ failedCalls = calls)

C11_Witness ==
  /\ Finished /\ cfgType = "custom" /\ calls = threshold /\ netCalls = 0
  /\ respError = "circuit open"

\* the field that carries the reply for a provider type
successField(type, body) ==
  IF type = "anthropic" THEN body.content ELSE body.choices

\* C12: for a JSON body, under both provider kinds: an error object yields
\* failure with the error's message; otherwise the expected success field
\* yields success with its text; a body with neither yields "unexpected
\* response format"; the result always is either a text or an error.
C12_ParseOutcomes ==
  (fnOp = "parseResponse" /\ fnArg[2].json) =>
    LET type  == fnArg[1]
        body  == fnArg[2]
        field == successField(type, body)
    IN  /\ fnErr = NilErr \/ Len(fnErr) = 1
        /\ body.error # Absent => fnErr = Err(body.error[1])
        /\ (body.error = Absent /\ Len(field) = 1)
             => (fnErr = NilErr /\ fnOut = field[1])
        /\ (body.error = Absent /\ Len(field) # 1) => fnErr = ErrFormat

----------------------------------------------------------------------------
(* Two invocations of main sharing one session file *)

Invocations == {"a", "b"}
\* both invocations run with the same model and -s argument
raceSessionID == "projekt"
\* how the retry loop of an invocation ends: the text of a response, or
\* the last error
RaceTexts == {"fine", "hi"}
RaceErrors == {ErrNetwork, ErrCircuitOpen}

InitRace ==
  /\ MainUnused
  /\ store \in StoredFiles
  /\ NewCircuitBreaker /\ now = 0
  /\ ObsInit /\ HostUnused /\ FnUnused
  /\ rpc = [p \in Invocations |-> "start"]
  /\ rprompt \in [Invocations -> Prompts]
  /\ rsession = [p \in Invocations |-> <<>>]
  /\ rresp = [p \in Invocations |-> ""]
  /\ rerr = [p \in Invocations |-> ""]
  /\ rlog = <<>>

\* 400-402: the session file is read, without a lock
RaceLoad(p) ==
  /\ rpc[p] = "start"
  /\ rsession' = [rsession EXCEPT ![p] = loadSession(raceSessionID, store)]
  /\ rlog' = Append(rlog, <<"read", p>>)
  /\ rpc' = [rpc EXCEPT ![p] = "loaded"]
  /\ UNCHANGED <<rprompt, rresp, rerr>>
  /\ UNCHANGED <<mainVars, cbVars, obsVars, hostVars, fnVars>>

\* 420-443: the retry loop ends with a response ...
RaceAnswered(p, text) ==
  /\ rpc[p] = "loaded"
  /\ rresp' = [rresp EXCEPT ![p] = text]
  /\ rpc' = [rpc EXCEPT ![p] = "called"]
  /\ UNCHANGED <<rprompt, rsession, rerr, rlog>>
  /\ UNCHANGED <<mainVars, cbVars, obsVars, hostVars, fnVars>>

\* ... or with lastErr set
RaceFailed(p, e) ==
  /\ rpc[p] = "loaded"
  /\ rerr' = [rerr EXCEPT ![p] = errorTextOf(e)]
  /\ rpc' = [rpc EXCEPT ![p] = "called"]
  /\ UNCHANGED <<rprompt, rsession, rresp, rlog>>
  /\ UNCHANGED <<mainVars, cbVars, obsVars, hostVars, fnVars>>

\* 447: a failed invocation leaves the file alone
RaceSkipSave(p) ==
  /\ rpc[p] = "called"
  /\ ~shouldSave(rerr[p], raceSessionID)
  /\ rpc' = [rpc EXCEPT ![p] = "done"]
  /\ UNCHANGED <<rprompt, rsession, rresp, rerr, rlog>>
  /\ UNCHANGED <<mainVars, cbVars, obsVars, hostVars, fnVars>>

\* the history an invocation writes: what it holds plus its two turns
turnsAdded(h, p, r) == addMessage(addMessage(h, "user", p), "assistant", r)

RaceSaveReloads(p) ==
  /\ rpc[p] = "called"
  /\ shouldSave(rerr[p], raceSessionID)
  /\ rsession' = [rsession EXCEPT ![p] =
                    turnsAdded(loadSession(raceSessionID, store),
                               rprompt[p], rresp[p])]
  /\ store' = save(rsession'[p], raceSessionID, store)
  /\ rlog' = Append(rlog, <<"write", p>>)
  /\ rpc' = [rpc EXCEPT ![p] = "done"]
  /\ UNCHANGED <<rprompt, rresp, rerr>>
  /\ UNCHANGED <<sessionID, prompt, timeout, retries, cfgType, jsonOut, pc,
                 session, contextPrompt, deadline, i, err, lastErr,
                 respResponse, respError, exitStatus, stdout>>
  /\ UNCHANGED <<cbVars, obsVars, hostVars, fnVars>>

\* 447-452: the two turns are appended to the history read at the start
\* and the file is overwritten with the result
RaceSave(p) ==
  /\ rpc[p] = "called"
  /\ shouldSave(rerr[p], raceSessionID)
  /\ rsession' = [rsession EXCEPT ![p] =
                    turnsAdded(rsession[p], rprompt[p], rresp[p])]
  /\ store' = save(rsession'[p], raceSessionID, store)
  /\ rlog' = Append(rlog, <<"write", p>>)
  /\ rpc' = [rpc EXCEPT ![p] = "done"]
  /\ UNCHANGED <<rprompt, rresp, rerr>>
  /\ UNCHANGED <<sessionID, prompt, timeout, retries, cfgType, jsonOut, pc,
                 session, contextPrompt, deadline, i, err, lastErr,
                 respResponse, respError, exitStatus, stdout>>
  /\ UNCHANGED <<cbVars, obsVars, hostVars, fnVars>>

NextRace ==
  \/ \E p \in Invocations : RaceLoad(p)
  \/ \E p \in Invocations, text \in RaceTexts : RaceAnswered(p, text)
  \/ \E p \in Invocations, e \in RaceErrors : RaceFailed(p, e)
  \/ \E p \in Invocations : RaceSkipSave(p)
  \/ \E p \in Invocations : RaceSave(p)

SpecRace == InitRace /\ [][NextRace]_vars

----------------------------------------------------------------------------
(* Claim about concurrent invocations, checked under SpecRace *)

\* the position of an access in rlog, 0 if it did not happen
RECURSIVE PosFrom(_, _)
PosFrom(ev, k) ==
  IF k > Len(rlog) THEN 0
  ELSE IF rlog[k] = ev THEN k ELSE PosFrom(ev, k + 1)
Pos(ev) == PosFrom(ev, 1)

Occurrences(ev) == Cardinality({k \in 1 .. Len(rlog) : rlog[k] = ev})

HasTurn(h, m) == \E k \in 1 .. Len(h) : h[k] = m

\* invocation p read the file before q wrote it, and wrote it after q
Overtaken(q, p) ==
  /\ p # q
  /\ rpc[p] = "done" /\ rpc[q] = "done"
  /\ rerr[p] = "" /\ rerr[q] = ""
  /\ Pos(<<"read", p>>) < Pos(<<"write", q>>)
  /\ Pos(<<"write", q>>) < Pos(<<"write", p>>)

\* C18: two concurrent invocations on one session each read the file once
\* at the start and write it at most once at the end, without a lock; when
\* one reads before the other writes and writes after it, both succeed and
\* the file that remains holds the later writer's history only: the turns
\* of the other invocation are lost.
C18_LostUpdate ==
  /\ \A p \in Invocations :
       /\ Occurrences(<<"read", p>>) <= 1
       /\ Occurrences(<<"write", p>>) <= 1
       /\ Pos(<<"write", p>>) > 0 =>
            (rerr[p] = "" /\ 0 < Pos(<<"read", p>>)
                          /\ Pos(<<"read", p>>) < Pos(<<"write", p>>))
  /\ \A p, q \in Invocations :
       Overtaken(q, p) =>
         /\ store = jsonMarshal(rsession[p])
         /\ rprompt[q] # rprompt[p] =>
              ~HasTurn(store.history, Message("user", rprompt[q]))

C18_Witness ==
  /\ Overtaken("a", "b")
  /\ rprompt["a"] = "hi" /\ rprompt["b"] = "how are you"
  /\ store0 = jsonMarshal(Conversation(1))
  /\ HasTurn(store.history, Message("user", "q1"))
  /\ HasTurn(store.history, Message("user", "how are you"))
  /\ ~HasTurn(store.history, Message("user", "hi"))

----------------------------------------------------------------------------
(* Claims about concurrent callers of CircuitBreaker.Do, under SpecCB *)

\* thread t is between its open check and its counter update
InDo(t) == tpc[t] = "inFn"

\* C16: among concurrent callers of Do on one breaker the sequence check,
\* invoke, update is atomic: at most one wrapped operation executes at any
\* time, and while a call is between its open check and its counter update
\* no other call reads or changes failures or lastFail.
C16_BreakerMutex ==
  /\ [](/\ running <= 1
        /\ Cardinality({t \in Threads : InDo(t)}) = running
        /\ \A t \in Threads : InDo(t) => mu = t)
  /\ [][ \A t \in Threads :
           (InDo(t) /\ InDo(t)') =>
             /\ failures' = failures
             /\ lastFail' = lastFail
             /\ \A u \in Threads \ {t} : ~Decides(u) ]_vars

\* a second caller is blocked in Lock while the first one's operation runs
\* on a breaker one failure short of open
C16_Witness ==
  /\ InDo("t1") /\ tpc["t2"] = "waiting"
  /\ failures = threshold - 1
  /\ now > tstart["t1"]

\* thread t's wrapped operation returns in this step
Returns(t) == tpc[t] = "inFn" /\ tpc'[t] = "idle"

\* C17: Do rejects with "circuit open" only if the three most recently
\* invoked operations all failed, with no success between them, and the
\* last of these failures is no older than the cooldown; a success sets
\* failures to 0, a failure adds one and stamps lastFail with the time.
C17_OpensOnlyOnConsecutiveFailures ==
  [][ \A t \in Threads :
        /\ (Decides(t) /\ Rejected(t)) =>
             /\ Len(opLog) = threshold
             /\ \A k \in 1 .. threshold : ~opLog[k].ok
             /\ now - opLog[threshold].ended <= cbTimeout
             /\ lastFail = opLog[threshold].ended
        /\ (Returns(t) /\ tres'[t] = <<NilErr>>) =>
             (failures' = 0 /\ lastFail' = lastFail)
        /\ (Returns(t) /\ tres'[t] # <<NilErr>>) =>
             (failures' = failures + 1 /\ lastFail' = now) ]_vars

\* a rejection right after the third failure, following an earlier success
C17_Witness ==
  \E t \in Threads :
    /\ tres[t] = <<ErrCircuitOpen>> /\ tpc[t] = "idle"
    /\ failures = threshold /\ lastFail = now
    /\ \E u \in Threads \ {t} : tres[u] = <<ErrNetwork>> /\ tpc[u] = "waiting"

----------------------------------------------------------------------------
(* Further claims about main, checked under Spec *)

\* C13: in plain and in JSON mode the process exits with status 0 exactly
\* when the outcome carries no error text and with status 1 exactly when it
\* carries one; in plain mode the response text is printed only with
\* status 0.
C13_ExitStatus ==
  /\ exitStatus = 0 => (Finished /\ respError = "")
  /\ exitStatus = 1 => (Finished /\ respError # "")
  /\ Finished => exitStatus = (IF respError = "" THEN 0 ELSE 1)
  /\ (~jsonOut /\ stdout # <<>>)
       => (exitStatus = 0 /\ stdout = <<"text", respResponse>>)
  /\ (Finished /\ ~jsonOut /\ exitStatus = 0) => stdout # <<>>

C13_Witness ==
  /\ Finished /\ jsonOut /\ exitStatus = 1
  /\ stdout = <<"json", "", "bad key">>

\* C14: once an attempt's operation has returned success the retry loop
\* makes no further attempt, no further provider call and no sleep.
C14_StopOnFirstSuccess ==
  [][ CallSucceeded =>
        /\ calls' = calls
        /\ netCalls' = netCalls
        /\ sleeps' = sleeps
        /\ i' = i
        /\ pc' \notin {"loop", "inFn", "returned", "sleep"} ]_vars

C14_Witness ==
  /\ Finished /\ CallSucceeded /\ failedCalls = 2 /\ calls = threshold
  /\ i < retries - 1

\* C15: the k-th failed attempt, when it is not the last one, is followed
\* by a sleep of exactly k seconds; no sleep follows the final attempt, so
\* there are at most attempts-1 sleeps; a "circuit open" rejection is
\* followed by the same sleep as any other failure.
C15_BackoffSchedule ==
  /\ \A k \in 1 .. Len(sleeps) : sleeps[k] = k
  /\ Len(sleeps) <= (IF retries >= 1 THEN retries - 1 ELSE 0)
  /\ pc \in {"inFn", "returned", "sleep"} => Len(sleeps) = i
  /\ (pc = "loop" /\ i < retries) => Len(sleeps) = i
  /\ (Finished /\ ~CallSucceeded /\ retries >= 1)
       => Len(sleeps) = retries - 1

C15_Witness ==
  /\ Finished /\ retries = threshold + 2 /\ err = ErrCircuitOpen
  /\ sleeps = <<1, 2, 3, 4>>

\* C19: only the overall deadline aborts a provider call in flight: a call
\* that is cut off by a timeout is cut off at the deadline, not before.
C19_OnlyDeadlineAborts ==
  (pc = "returned" /\ err \in {ErrDeadline, ErrClientTimeout})
    => now >= deadline

\* C20: success is reported - empty error text, status 0, the session
\* appended and saved - only when callAPI was invoked at least once and an
\* attempt returned a response, whatever the retry count.
C20_SuccessNeedsResponse ==
  ((Finished /\ respError = "") \/ exitStatus = 0 \/ saves > 0 \/ adds > 0)
    => (calls >= 1 /\ CallSucceeded)

====
